---- MODULE Spec2Model ----
(***************************************************************************)
(* A model of the cybersecurity news aggregator: the concurrent scrape of  *)
(* the registered sources (scraper.py), the article store with its unique  *)
(* url (utils.py, models.py), the classifier and the recommendation        *)
(* replacement (classifier.py), severity scoring and the memoized          *)
(* coordinate lookup (threat_map.py).                                      *)
(*                                                                         *)
(* Each subsystem has its own specification over the shared variables; a   *)
(* specification leaves the variables of the other subsystems at their     *)
(* initial values.                                                         *)
(***************************************************************************)
EXTENDS Integers, Sequences, FiniteSets, TLC

VARIABLES
    \* ---- scrape_all_sources (scraper.py)
    sa_pc,          \* position of the calling thread in scrape_all_sources
    submitted,      \* number of sources submitted to the executor so far
    work_queue,     \* the executor's FIFO queue of tasks not yet started
    running,        \* sources whose scrape_source task is in flight
    future,         \* per source: state and result of its future
    fetch,          \* per source: what requests.get did (environment)
    fetch_count,    \* per source: number of requests.get calls made
    cursor,         \* position of the result loop in future_to_source
    all_articles    \* the list scrape_all_sources returns

VARIABLES
    \* ---- save_to_db and the news_articles table (utils.py, models.py)
    news_articles,  \* the committed rows of news_articles
    db_next_id,     \* the next autoincrement id
    clock,          \* datetime.utcnow and datetime.now, in minutes
    save_pc,        \* position of save_to_db: "idle" or "loop"
    batch,          \* news_items of the current (or last) call
    save_i,         \* index of the item the loop is at
    session_new,    \* the session's pending inserts (db.add, not flushed)
    save_result,    \* how the last call ended
    store_before    \* news_articles when the current (or last) call began

VARIABLES
    \* ---- classify_news (classifier.py)
    cn_pc,          \* position of classify_news: "idle", "loop", "recs", "raised"
    cn_input,       \* the articles handed to classify_news
    cn_i,           \* index of the article the loop is at
    cn_responses,   \* what the classification call did for each article so far
    classified_articles, \* the list the loop builds
    cn_result       \* how the last call ended

VARIABLES
    \* ---- update_recommendations and security_recommendations (classifier.py)
    recs,           \* the committed rows of security_recommendations
    rec_next_id,    \* the next autoincrement id
    ur_pc,          \* position of update_recommendations
    ur_df,          \* articles_df of the current (or last) call
    top_threats,    \* top_threats of the current (or last) call
    ur_i,           \* index of the threat the insert loop is at
    tx_deleted,     \* the open transaction has deleted every row
    tx_new,         \* rows added to the session in the open transaction
    recs_before,    \* recs when the current (or last) call began
    ur_result       \* how the last call ended

VARIABLES
    \* ---- get_trending_threats (utils.py)
    tr_pc,          \* "input" before the call, "done" after it
    tr_df,          \* the batch the call is given
    tr_trending,    \* what get_trending_threats returned
    tr_top          \* top_threats of update_recommendations for the same batch

VARIABLES
    \* ---- calculate_threat_severity (threat_map.py)
    sev_pc,         \* "input" before the call, "done" after it
    sev_threat,     \* the threat_type argument
    sev_category,   \* the category argument
    sev_result      \* the value returned

VARIABLES
    \* ---- get_coordinates and its lru_cache (threat_map.py)
    geo_cache,      \* the cache entries, least recently used first
    geo_hist,       \* per region looked up: geocode calls made, first result
    geo_last,       \* the last lookup: region, result, geocode calls, outcome
    geo_filled,     \* number of further regions looked up so far
    geo_phase       \* where the callers are: "warm-up", "run", "probe"

VARIABLES
    \* ---- scrape_source, one selector at a time (scraper.py)
    ss_pc,          \* "idle", "scan" inside the selector loop, "done"
    ss_page,        \* what soup.select finds for each selector
    ss_sel,         \* index of the selector the loop is at
    ss_articles,    \* the list articles
    ss_consulted,   \* indices of the selectors soup.select was called with
    ss_processed    \* number of elements the element loop has run for

VARIABLES
    \* ---- create_threat_map (threat_map.py)
    tm_pc,          \* "idle", "enter", "collect" (first pass), "mark" (second), "done"
    tm_data,        \* news_data, the rows of the batch
    tm_i,           \* index of the row the first pass is at
    region_threats, \* region -> [threats, max_severity, count]
    tm_regions,     \* the keys of region_threats in insertion order
    tm_j,           \* index of the region the second pass is at
    tm_markers      \* the markers added to the map, in order

VARIABLES
    \* ---- update_news and the session state (main.py)
    un_pc,          \* position of update_news: "idle", "scrape", "classify", "save"
    last_update,    \* st.session_state.last_update
    un_calls,       \* number of update_news calls of the session so far
    un_waits,       \* number of waits between calls so far
    news_df,        \* what load_news_from_db returned to the current (or last) call
    un_checked,     \* [at, last_update]: the clock and last_update the call compared
    un_result,      \* how the last call ended
    un_returned     \* the table the last call returned

scrape_vars == <<sa_pc, submitted, work_queue, running, future, fetch,
                 fetch_count, cursor, all_articles>>

store_vars == <<news_articles, db_next_id, clock, save_pc, batch, save_i,
                session_new, save_result, store_before>>

classify_vars == <<cn_pc, cn_input, cn_i, cn_responses, classified_articles,
                   cn_result>>

rec_vars == <<recs, rec_next_id, ur_pc, ur_df, top_threats, ur_i, tx_deleted,
              tx_new, recs_before, ur_result>>

trend_vars == <<tr_pc, tr_df, tr_trending, tr_top>>

severity_vars == <<sev_pc, sev_threat, sev_category, sev_result>>

geo_vars == <<geo_cache, geo_hist, geo_last, geo_filled, geo_phase>>

map_vars == <<tm_pc, tm_data, tm_i, region_threats, tm_regions, tm_j, tm_markers>>

pipeline_vars == <<un_pc, last_update, un_calls, un_waits, news_df, un_checked,
                   un_result, un_returned>>

selector_vars == <<ss_pc, ss_page, ss_sel, ss_articles, ss_consulted, ss_processed>>

vars == <<scrape_vars, store_vars, classify_vars, rec_vars, trend_vars,
          severity_vars, geo_vars, selector_vars, map_vars, pipeline_vars>>

\* What the actions of one subsystem leave alone.
scrape_frame == <<store_vars, classify_vars, rec_vars, trend_vars, severity_vars, geo_vars, selector_vars, map_vars, pipeline_vars>>
store_frame == <<scrape_vars, classify_vars, rec_vars, trend_vars, severity_vars, geo_vars, selector_vars, map_vars, pipeline_vars>>
classify_frame == <<scrape_vars, store_vars, trend_vars, severity_vars, geo_vars, selector_vars, map_vars, pipeline_vars>>
rec_frame == <<scrape_vars, store_vars, trend_vars, severity_vars, geo_vars, selector_vars, map_vars, pipeline_vars>>
trend_frame == <<scrape_vars, store_vars, classify_vars, rec_vars, severity_vars, geo_vars, selector_vars, map_vars, pipeline_vars>>
severity_frame == <<scrape_vars, store_vars, classify_vars, rec_vars, trend_vars, geo_vars, selector_vars, map_vars, pipeline_vars>>
selector_frame == <<scrape_vars, store_vars, classify_vars, rec_vars, trend_vars,
                    severity_vars, geo_vars, map_vars, pipeline_vars>>
map_frame == <<scrape_vars, store_vars, classify_vars, rec_vars, trend_vars,
               severity_vars, selector_vars, pipeline_vars>>
pipeline_frame == <<trend_vars, severity_vars, geo_vars, selector_vars, map_vars>>
geo_frame == <<scrape_vars, store_vars, classify_vars, rec_vars, trend_vars, severity_vars, selector_vars, map_vars, pipeline_vars>>

-----------------------------------------------------------------------------
(* Bounds and program constants *)

\* Number of registered sources the model runs (the registry holds 23).
NumSources == 6

\* ThreadPoolExecutor(max_workers=5)
max_workers == 5

\* articles_elements[:5]
ElementCap == 5

\* Longest news_items list handed to save_to_db.
MaxBatch == 2

\* Last tick of the clock.
MaxClock == 1

\* Longest list of articles handed to classify_news.
MaxArticles == 2

\* Longest batch handed to update_recommendations directly.
MaxRecBatch == 3

\* Longest batch handed to get_trending_threats.
MaxTrendBatch == 5

\* Highest id the security_recommendations sequence hands out before the
\* model stops calling update_recommendations.
MaxRecId == 3

\* Longest list of elements soup.select finds for one selector.
MaxPageElements == 6

\* Longest batch handed to create_threat_map.
MaxMapBatch == 4

\* Number of update_news calls in a session.
MaxCalls == 2

\* Number of waits between the calls of a session.
MaxWaits == 2

\* timedelta(minutes=30), in minutes
StaleMinutes == 30

\* timedelta(hours=24), in minutes
DayMinutes == 1440

\* most_common(3)
TopN == 3

\* min(5, base_severity + modifier)
MaxSeverity == 5

\* @lru_cache(maxsize=128)
maxsize == 128

\* Number of further regions the callers look up after the warm-up.
NumFill == 128

-----------------------------------------------------------------------------
(* Sequence helpers *)

RECURSIVE SeqToSet(_)
SeqToSet(s) == IF s = <<>> THEN {} ELSE {Head(s)} \cup SeqToSet(Tail(s))

Take(s, n) == SubSeq(s, 1, IF Len(s) < n THEN Len(s) ELSE n)

-----------------------------------------------------------------------------
(* scraper.py: the source registry *)

\* The registry in its dict order: name and region of each source.
Registry ==
    << [name |-> "Krebs on Security",          region |-> "North America"],
       [name |-> "The Hacker News",            region |-> "Global"],
       [name |-> "Bleeping Computer",          region |-> "North America"],
       [name |-> "Security Week",              region |-> "North America"],
       [name |-> "Dark Reading",               region |-> "North America"],
       [name |-> "Threatpost",                 region |-> "North America"],
       [name |-> "CSO Online",                 region |-> "North America"],
       [name |-> "Naked Security",             region |-> "Europe"],
       [name |-> "Kenya Cybersecurity Report", region |-> "Kenya"],
       [name |-> "Kenya Tech News",            region |-> "Kenya"],
       [name |-> "Business Daily Security",    region |-> "Kenya"],
       [name |-> "The Standard Tech",          region |-> "Kenya"],
       [name |-> "ZDNet Security",             region |-> "Global"],
       [name |-> "Infosecurity Magazine",      region |-> "Europe"],
       [name |-> "SC Magazine",                region |-> "North America"],
       [name |-> "The Register Security",      region |-> "Europe"],
       [name |-> "Cyber Scoop",                region |-> "North America"],
       [name |-> "The Record",                 region |-> "Global"],
       [name |-> "IT Security Guru",           region |-> "Europe"],
       [name |-> "Security Affairs",           region |-> "Europe"],
       [name |-> "The Stack Asia",             region |-> "Asia"],
       [name |-> "Security Brief Asia",        region |-> "Asia"],
       [name |-> "IT News Africa",             region |-> "Africa"] >>

\* The sources of a run: the first NumSources entries of the registry,
\* identified by their position in it.
SOURCES == 1..(IF NumSources < Len(Registry) THEN NumSources ELSE Len(Registry))

-----------------------------------------------------------------------------
(* scraper.py: scrape_article, scrape_source *)

\* A page is what soup.select finds for each structural selector: a list of
\* elements.  An element says what its title cascade finds:
\*   link = "none"    no h1 a / h2 a / h3 a / .title a / .headline a
\*   link = "nohref"  a title anchor without href (extract_url gives '')
\*   link = "rel"     an href not starting with http
\*   link = "abs"     an href starting with http
selectors == << "article", ".post", ".article", ".news-item", ".story", ".entry" >>

Element(link, id) == [link |-> link, id |-> id]

NoElements == [sel \in SeqToSet(selectors) |-> <<>>]

\* trafilatura.fetch_url + extract + clean_text; any exception gives "".
scrape_article(url, extracted) == IF extracted THEN "text" ELSE ""

\* The full text behind a url as the environment serves it: extraction of
\* the odd-numbered links fails or yields nothing in the modelled world.
FullTextAvailable(url) == url.id % 2 = 0

\* url = href, or source_info['url'] + href when href is relative.
ResolveUrl(source, el) ==
    IF el.link = "abs" THEN [base |-> 0, id |-> el.id]
                       ELSE [base |-> source, id |-> el.id]

\* Lines 87-109: the articles the elements of one selector add.
RECURSIVE ExtractElements(_, _, _)
ExtractElements(source, els, articles) ==
    IF els = <<>> THEN articles
    ELSE LET el == Head(els)
             url == ResolveUrl(source, el)
         IN  IF el.link \in {"rel", "abs"}
             THEN ExtractElements(source, Tail(els),
                      Append(articles,
                             [title   |-> el.id,
                              url     |-> url,
                              source  |-> Registry[source].name,
                              region  |-> Registry[source].region,
                              summary |-> scrape_article(url, FullTextAvailable(url))]))
             ELSE ExtractElements(source, Tail(els), articles)

\* A loop that stops at the first selector that matched any element.
StopScan_on_match(els, articles) == els # <<>>

\* if articles: break, inside if articles_elements (lines 86, 111-112).
StopScan(els, articles) == els # <<>> /\ articles # <<>>

\* Lines 84-112: the selector loop; it stops once articles is non-empty.
RECURSIVE ScanSelectors(_, _, _, _)
ScanSelectors(source, page, i, articles) ==
    IF i > Len(selectors) THEN articles
    ELSE LET els   == page[selectors[i]]
             found == IF els # <<>>
                      THEN ExtractElements(source, Take(els, ElementCap), articles)
                      ELSE articles
         IN  IF StopScan(els, found)
             THEN found
             ELSE ScanSelectors(source, page, i + 1, found)

\* What requests.get does for a source: it raises (timeout, connection
\* error), or it returns a response whose body is parsed whatever its status.
PageTwo      == [NoElements EXCEPT !["article"] =
                    << Element("rel", 1), Element("none", 0), Element("rel", 2) >>]
PageBlank    == NoElements
PageListing  == [NoElements EXCEPT ![".post"] = << Element("abs", 7) >>]

FetchOutcomes ==
    { [kind |-> "timeout",    body |-> PageBlank],
      [kind |-> "ok",         body |-> PageTwo],
      [kind |-> "http_error", body |-> PageBlank],
      [kind |-> "http_error", body |-> PageListing] }

NotFetched == [kind |-> "none", body |-> PageBlank]

\* scrape_source: any exception of the fetch gives the empty list; a
\* response is parsed without a look at its status code.
scrape_source(source, outcome) ==
    IF outcome.kind = "timeout" THEN <<>>
    ELSE ScanSelectors(source, outcome.body, 1, <<>>)

-----------------------------------------------------------------------------
(* scraper.py: scrape_all_sources *)

\* A pool without its bound: every queued task finds a worker.
WorkerAvailable_unbounded == TRUE

\* ThreadPoolExecutor(max_workers=5): a queued task starts only on a free worker.
WorkerAvailable == Cardinality(running) < max_workers

ScrapeInit ==
    /\ sa_pc = "submit"
    /\ submitted = 0
    /\ work_queue = <<>>
    /\ running = {}
    /\ future = [s \in SOURCES |-> [state |-> "none", result |-> <<>>]]
    /\ fetch = [s \in SOURCES |-> NotFetched]
    /\ fetch_count = [s \in SOURCES |-> 0]
    /\ cursor = 1
    /\ all_articles = <<>>

\* A call of scrape_all_sources: all_articles = [], the executor is created.
ScrapeEnter ==
    /\ sa_pc' = "submit"
    /\ submitted' = 0
    /\ work_queue' = <<>>
    /\ running' = {}
    /\ future' = [s \in SOURCES |-> [state |-> "none", result |-> <<>>]]
    /\ fetch' = [s \in SOURCES |-> NotFetched]
    /\ fetch_count' = [s \in SOURCES |-> 0]
    /\ cursor' = 1
    /\ all_articles' = <<>>

\* Results merged in front of the list instead of behind it.
Extend_front(list, articles) == articles \o list

\* all_articles.extend(articles)
Extend(list, articles) == list \o articles

\* executor.submit(scrape_source, name, info) for the next source of the registry.
Submit ==
    /\ sa_pc = "submit"
    /\ submitted < Cardinality(SOURCES)
    /\ LET s == submitted + 1
       IN  /\ submitted' = s
           /\ work_queue' = Append(work_queue, s)
           /\ future' = [future EXCEPT ![s].state = "pending"]
    /\ sa_pc' = IF submitted' = Cardinality(SOURCES) THEN "collect" ELSE "submit"
    /\ UNCHANGED <<running, fetch, fetch_count, cursor, all_articles>>
    /\ UNCHANGED scrape_frame

\* A worker thread takes the oldest queued task and issues its requests.get.
WorkerStart ==
    /\ work_queue # <<>>
    /\ WorkerAvailable
    /\ LET s == Head(work_queue)
       IN  /\ running' = running \cup {s}
           /\ future' = [future EXCEPT ![s].state = "running"]
           /\ fetch_count' = [fetch_count EXCEPT ![s] = @ + 1]
    /\ work_queue' = Tail(work_queue)
    /\ UNCHANGED <<sa_pc, submitted, fetch, cursor, all_articles>>
    /\ UNCHANGED scrape_frame

\* The task of source s ends: scrape_source returns its list.
WorkerFinish(s, outcome) ==
    /\ s \in running
    /\ running' = running \ {s}
    /\ fetch' = [fetch EXCEPT ![s] = outcome]
    /\ future' = [future EXCEPT ![s] =
                     [state |-> "finished", result |-> scrape_source(s, outcome)]]
    /\ UNCHANGED <<sa_pc, submitted, work_queue, fetch_count, cursor, all_articles>>
    /\ UNCHANGED scrape_frame

\* for future in future_to_source: future.result() blocks until that task
\* is finished; a non-empty list extends all_articles.
Collect ==
    /\ sa_pc = "collect"
    /\ cursor <= Cardinality(SOURCES)
    /\ future[cursor].state = "finished"
    /\ all_articles' = IF future[cursor].result # <<>>
                       THEN Extend(all_articles, future[cursor].result)
                       ELSE all_articles
    /\ cursor' = cursor + 1
    /\ UNCHANGED <<sa_pc, submitted, work_queue, running, future, fetch, fetch_count>>
    /\ UNCHANGED scrape_frame

\* Leaving the with block: executor.shutdown(wait=True), then return.
Return ==
    /\ sa_pc = "collect"
    /\ cursor > Cardinality(SOURCES)
    /\ work_queue = <<>> /\ running = {}
    /\ sa_pc' = "done"
    /\ UNCHANGED <<submitted, work_queue, running, future, fetch, fetch_count,
                   cursor, all_articles>>
    /\ UNCHANGED scrape_frame

ScrapeNext ==
    \/ Submit
    \/ WorkerStart
    \/ \E s \in SOURCES, o \in FetchOutcomes : WorkerFinish(s, o)
    \/ Collect
    \/ Return

-----------------------------------------------------------------------------
(* utils.py: save_to_db; models.py: NewsArticle *)

\* item.get(key, default)
Get(item, key, default) == IF key \in DOMAIN item THEN item[key] ELSE default

\* The items callers hand to save_to_db: two with the same url and different
\* values in every other field, and one without the optional keys.
ItemA == [title |-> "Patch released", url |-> "u1", source |-> "The Record",
          summary |-> "text", category |-> "Vulnerability",
          region |-> "Global", threat_type |-> "Zero-day Vulnerability"]
ItemA2 == [title |-> "Patch delayed", url |-> "u1", source |-> "Threatpost",
           summary |-> "", category |-> "Industry News",
           region |-> "North America", threat_type |-> "Phishing"]
ItemB == [title |-> "Bank breached", url |-> "u2", source |-> "Kenya Tech News",
          summary |-> "text"]

Items == {ItemA, ItemA2, ItemB}

Batches == UNION {[1..n -> Items] : n \in 0..MaxBatch}

\* NewsArticle(title=..., url=..., ...) as save_to_db builds it.
NewsArticle(item) ==
    [title       |-> item.title,
     url         |-> item.url,
     source      |-> item.source,
     summary     |-> item.summary,
     category    |-> Get(item, "category", "Uncategorized"),
     region      |-> Get(item, "region", "Global"),
     threat_type |-> Get(item, "threat_type", "Other")]

\* db.query(NewsArticle).filter_by(url=url).first(): the session is made with
\* autoflush=False, so the query sees the committed rows only, not the
\* session's pending inserts.
Existing(url) == \E r \in news_articles : r.url = url

\* The url column without unique=True: no flush is refused.
UniqueViolation_none(pending, rows) == FALSE

\* url = Column(String(1000), nullable=False, unique=True): the flush of the
\* pending inserts fails when it would store a url twice.
UniqueViolation(pending, rows) ==
    \/ \E i \in 1..Len(pending) : \E r \in rows : r.url = pending[i].url
    \/ \E i, j \in 1..Len(pending) : i # j /\ pending[i].url = pending[j].url

\* The rows a successful flush adds: id from the sequence, created_at now.
InsertedRows(pending) ==
    { [id          |-> db_next_id + i - 1,
       created_at  |-> clock,
       title       |-> pending[i].title,
       url         |-> pending[i].url,
       source      |-> pending[i].source,
       summary     |-> pending[i].summary,
       category    |-> pending[i].category,
       region      |-> pending[i].region,
       threat_type |-> pending[i].threat_type] : i \in 1..Len(pending) }

\* A rollback that keeps the first pending insert, as if every db.add were
\* committed on its own.
Rollback_partial(rows, pending) ==
    IF pending = <<>> \/ (\E r \in rows : r.url = pending[1].url)
    THEN rows
    ELSE rows \cup { [id          |-> db_next_id,
                      created_at  |-> clock,
                      title       |-> pending[1].title,
                      url         |-> pending[1].url,
                      source      |-> pending[1].source,
                      summary     |-> pending[1].summary,
                      category    |-> pending[1].category,
                      region      |-> pending[1].region,
                      threat_type |-> pending[1].threat_type] }

\* db.rollback(): the committed rows after the except branch; the pending
\* inserts of the session are discarded.
Rollback(rows, pending) == rows

StoreInit ==
    /\ news_articles = {}
    /\ db_next_id = 1
    /\ clock = 0
    /\ save_pc = "idle"
    /\ batch = <<>>
    /\ save_i = 1
    /\ session_new = <<>>
    /\ save_result = "none"
    /\ store_before = {}

\* save_to_db(news_items): db = next(get_db()), the loop begins.
SaveEnter(items) ==
    /\ save_pc = "idle"
    /\ save_pc' = "loop"
    /\ batch' = items
    /\ save_i' = 1
    /\ session_new' = <<>>
    /\ save_result' = "running"
    /\ store_before' = news_articles
    /\ UNCHANGED <<news_articles, db_next_id, clock>>

\* A call of save_to_db from outside update_news.
SaveBegin(items) ==
    /\ un_pc = "idle"
    /\ SaveEnter(items)
    /\ UNCHANGED store_frame

\* One pass of the loop: the existence query, and db.add when it finds nothing.
SaveItem ==
    /\ save_pc = "loop"
    /\ save_i <= Len(batch)
    /\ session_new' = IF Existing(batch[save_i].url)
                      THEN session_new
                      ELSE Append(session_new, NewsArticle(batch[save_i]))
    /\ save_i' = save_i + 1
    /\ UNCHANGED <<news_articles, db_next_id, clock, save_pc, batch,
                   save_result, store_before>>
    /\ UNCHANGED store_frame

\* An except clause for IntegrityError only.
SaveCaught_integrity_only(exc) == exc = "integrity_error"

\* except Exception as e (utils.py, line 26): every exception of the loop
\* and of the commit is caught.
SaveCaught(exc) == TRUE

\* db.commit(): the pending inserts are flushed and committed together, or
\* the unique constraint raises IntegrityError and the except branch rolls back.
SaveCommit ==
    /\ save_pc = "loop"
    /\ save_i > Len(batch)
    /\ IF UniqueViolation(session_new, news_articles)
       THEN /\ save_result' = IF SaveCaught("integrity_error")
                              THEN "integrity_error" ELSE "raised"
            /\ news_articles' = Rollback(news_articles, session_new)
            /\ UNCHANGED db_next_id
       ELSE /\ save_result' = "committed"
            /\ news_articles' = news_articles \cup InsertedRows(session_new)
            /\ db_next_id' = db_next_id + Len(session_new)
    /\ save_pc' = "idle"
    /\ session_new' = <<>>
    /\ UNCHANGED <<clock, batch, save_i, store_before>>
    /\ UNCHANGED store_frame

\* The database fails (a query of the loop or the commit raises): the except
\* branch rolls the session back and the call returns.
SaveFail ==
    /\ save_pc = "loop"
    /\ save_result' = IF SaveCaught("db_error") THEN "db_error" ELSE "raised"
    /\ news_articles' = Rollback(news_articles, session_new)
    /\ save_pc' = "idle"
    /\ session_new' = <<>>
    /\ UNCHANGED <<db_next_id, clock, batch, save_i, store_before>>
    /\ UNCHANGED store_frame

\* Time passes.
Tick ==
    /\ clock < MaxClock
    /\ clock' = clock + 1
    /\ UNCHANGED <<news_articles, db_next_id, save_pc, batch, save_i,
                   session_new, save_result, store_before>>
    /\ UNCHANGED store_frame

StoreNext ==
    \/ \E items \in Batches : SaveBegin(items)
    \/ SaveItem
    \/ SaveCommit
    \/ SaveFail
    \/ Tick

-----------------------------------------------------------------------------
(* classifier.py: classify_article *)

\* Python's None (a JSON null, a missing DataFrame value).
None == "<None>"

\* What client.chat.completions.create does for one article: it raises (the
\* network, the inference service), or it returns a message whose content is
\* text.  form says what json.loads makes of the text; obj holds the members
\* when the text is a JSON object.
Raises(kind) == [kind |-> kind, form |-> "", obj |-> <<>>]
Content(form, obj) == [kind |-> "content", form |-> form, obj |-> obj]

Responses ==
    { Raises("network_error"),
      Raises("inference_error"),
      Content("malformed", <<>>),
      Content("array", <<>>),
      Content("string", <<>>),
      Content("object", [category |-> "Malware & Threats", threat_type |-> "Phishing"]),
      Content("object", [category |-> "Data Breach", threat_type |-> "Ransomware"]),
      Content("object", [category |-> "Privacy", threat_type |-> None]),
      Content("object", [verdict |-> "unknown"]) }

\* The exception the try block of classify_article ends with, "" when none:
\* the call raises; json.loads raises on malformed text; result.get raises
\* AttributeError when the text is JSON but not an object.
TryException(response) ==
    IF response.kind # "content" THEN response.kind
    ELSE IF response.form = "malformed" THEN "JSONDecodeError"
    ELSE IF response.form # "object" THEN "AttributeError"
    ELSE ""

\* An except clause for JSON errors only.
Caught_json_only(exc) == exc = "JSONDecodeError"

\* except Exception: every exception of the try block is caught.
Caught(exc) == TRUE

\* article['category'] = ...; article['threat_type'] = ...: the dict keeps
\* its other keys.
SetKeys(article, category, threat_type) ==
    [k \in DOMAIN article \cup {"category", "threat_type"} |->
        IF k = "category" THEN category
        ELSE IF k = "threat_type" THEN threat_type
        ELSE article[k]]

\* classify_article: [raised, article].  The failure policy sets both fields.
classify_article(article, response) ==
    LET exc == TryException(response)
    IN  IF exc = ""
        THEN [raised  |-> FALSE,
              article |-> SetKeys(article,
                                  Get(response.obj, "category", "Uncategorized"),
                                  Get(response.obj, "threat_type", "Other"))]
        ELSE IF Caught(exc)
        THEN [raised  |-> FALSE,
              article |-> SetKeys(article, "Uncategorized", "Other")]
        ELSE [raised |-> TRUE, article |-> article]

-----------------------------------------------------------------------------
(* classifier.py, utils.py: Counter(...dropna()).most_common(3) *)

\* df['threat_type']: the column of a batch.
ThreatColumn(df) == [i \in 1..Len(df) |-> df[i].threat_type]

\* The column with its missing values left in.
DropNa_keep(col) == col

\* .dropna()
RECURSIVE DropNa(_)
DropNa(col) ==
    IF col = <<>> THEN <<>>
    ELSE IF Head(col) = None THEN DropNa(Tail(col))
    ELSE <<Head(col)>> \o DropNa(Tail(col))

\* Counter(col): the number of occurrences of x.
Count(col, x) == Cardinality({i \in 1..Len(col) : col[i] = x})

\* The keys of Counter(col) in insertion order: first occurrences.
RECURSIVE CounterKeys(_, _)
CounterKeys(col, seen) ==
    IF col = <<>> THEN seen
    ELSE IF Head(col) \in SeqToSet(seen) THEN CounterKeys(Tail(col), seen)
    ELSE CounterKeys(Tail(col), Append(seen, Head(col)))

Remove(keys, x) == SelectSeq(keys, LAMBDA k : k # x)

\* most_common(n): the n keys of highest count, highest first; keys of equal
\* count stay in insertion order (heapq.nlargest is stable).
RECURSIVE MostCommon(_, _, _)
MostCommon(col, keys, n) ==
    IF n = 0 \/ keys = <<>> THEN <<>>
    ELSE LET best == CHOOSE i \in 1..Len(keys) :
                        /\ \A j \in 1..Len(keys) : Count(col, keys[j]) <= Count(col, keys[i])
                        /\ \A j \in 1..(i - 1) : Count(col, keys[j]) < Count(col, keys[i])
         IN  <<keys[best]>> \o MostCommon(col, Remove(keys, keys[best]), n - 1)

\* top_threats of update_recommendations (lines 85-87).
TopThreats(df) ==
    LET col == DropNa(ThreatColumn(df))
    IN  MostCommon(col, CounterKeys(col, <<>>), TopN)

\* utils.get_trending_threats.
get_trending_threats(df) ==
    IF df = <<>> THEN <<>>
    ELSE LET col == DropNa(ThreatColumn(df))
             top == MostCommon(col, CounterKeys(col, <<>>), TopN)
         IN  [i \in 1..Len(top) |-> [threat |-> top[i], count |-> Count(col, top[i])]]

-----------------------------------------------------------------------------
(* classifier.py: generate_recommendations, update_recommendations *)

\* generate_recommendations: the service's text, or the fixed template when
\* the request fails.
generate_recommendations(threat, answered) ==
    [text |-> IF answered THEN "advice" ELSE "standard measures", about |-> threat]

\* if articles_df.empty: return ... if not top_threats: return
\* An early return that looks at the batch only.
SkipUpdate_empty_only(df, top) == df = <<>>

SkipUpdate(df, top) == df = <<>> \/ top = <<>>

\* A session that commits each statement as it runs: the delete is stored at once.
AfterDelete_autocommit(rows) == {}

\* The committed rows once the transaction has run its delete: unchanged,
\* the delete is part of the open transaction.
AfterDelete(rows) == rows

\* The rows a commit stores: the pending rows, after the delete if there was one.
CommittedRows(rows, deleted, new) ==
    (IF deleted THEN {} ELSE rows) \cup
    { [id             |-> rec_next_id + i - 1,
       threat_type    |-> new[i].threat_type,
       recommendation |-> new[i].recommendation,
       created_at     |-> clock] : i \in 1..Len(new) }

RecInit ==
    /\ recs = {}
    /\ rec_next_id = 1
    /\ ur_pc = "idle"
    /\ ur_df = <<>>
    /\ top_threats = <<>>
    /\ ur_i = 1
    /\ tx_deleted = FALSE
    /\ tx_new = <<>>
    /\ recs_before = {}
    /\ ur_result = "none"

\* update_recommendations(articles_df) up to the opening of the session:
\* the two early returns, or the top threats of the batch.
UR_Enter(df) ==
    /\ ur_pc = "idle"
    /\ rec_next_id <= MaxRecId
    /\ ur_df' = df
    /\ top_threats' = IF df = <<>> THEN <<>> ELSE TopThreats(df)
    /\ recs_before' = recs
    /\ ur_i' = 1
    /\ tx_deleted' = FALSE
    /\ tx_new' = <<>>
    /\ IF SkipUpdate(df, top_threats')
       THEN ur_pc' = "idle" /\ ur_result' = "skipped"
       ELSE ur_pc' = "delete" /\ ur_result' = "running"
    /\ UNCHANGED <<recs, rec_next_id>>

\* db.query(SecurityRecommendation).delete()
UR_Delete ==
    /\ ur_pc = "delete"
    /\ tx_deleted' = TRUE
    /\ recs' = AfterDelete(recs)
    /\ ur_pc' = "add"
    /\ UNCHANGED <<rec_next_id, ur_df, top_threats, ur_i, tx_new, recs_before, ur_result>>
    /\ UNCHANGED <<classify_vars, rec_frame>>

\* One pass of the loop: generate_recommendations(threat), db.add(new_rec).
UR_Add(answered) ==
    /\ ur_pc = "add"
    /\ ur_i <= Len(top_threats)
    /\ tx_new' = Append(tx_new,
                   [threat_type    |-> top_threats[ur_i],
                    recommendation |-> generate_recommendations(top_threats[ur_i], answered)])
    /\ ur_i' = ur_i + 1
    /\ UNCHANGED <<recs, rec_next_id, ur_pc, ur_df, top_threats, tx_deleted,
                   recs_before, ur_result>>
    /\ UNCHANGED <<classify_vars, rec_frame>>

\* db.commit(): the delete and the inserts are stored together.
UR_Commit ==
    /\ ur_pc = "add"
    /\ ur_i > Len(top_threats)
    /\ recs' = CommittedRows(recs, tx_deleted, tx_new)
    /\ rec_next_id' = rec_next_id + Len(tx_new)
    /\ tx_deleted' = FALSE
    /\ tx_new' = <<>>
    /\ ur_pc' = "idle"
    /\ ur_result' = "committed"
    /\ UNCHANGED <<ur_df, top_threats, ur_i, recs_before>>
    /\ UNCHANGED <<classify_vars, rec_frame>>

\* The database fails: the delete raises, a pass of the insert loop raises,
\* or the commit (the flush of the inserts, the commit itself) raises.  The
\* except branch rolls the transaction back.
UR_Fail ==
    /\ \/ ur_pc = "delete" /\ ur_result' = "failed_delete"
       \/ ur_pc = "add" /\ ur_i <= Len(top_threats) /\ ur_result' = "failed_insert"
       \/ ur_pc = "add" /\ ur_i > Len(top_threats) /\ ur_result' = "failed_commit"
    /\ tx_deleted' = FALSE
    /\ tx_new' = <<>>
    /\ ur_pc' = "idle"
    /\ UNCHANGED <<recs, rec_next_id, ur_df, top_threats, ur_i, recs_before>>
    /\ UNCHANGED <<classify_vars, rec_frame>>

\* The batches callers hand to update_recommendations: rows of a DataFrame,
\* of which the model keeps the threat_type column.
ThreatValues == {"Phishing", "Ransomware", None}

\* A batch of four threat types, one of them twice.
WideBatch == << [threat_type |-> "DDoS"], [threat_type |-> "Phishing"],
                [threat_type |-> "Other"], [threat_type |-> "Phishing"],
                [threat_type |-> "Ransomware"] >>

RecBatches == UNION {[1..n -> [threat_type : ThreatValues]] : n \in 0..MaxRecBatch}
              \cup {WideBatch}

\* A call of update_recommendations from outside classify_news.
UR_Call(df) ==
    /\ cn_pc = "idle"
    /\ UR_Enter(df)
    /\ UNCHANGED <<classify_vars, rec_frame>>

RecNext ==
    \/ \E df \in RecBatches : UR_Call(df)
    \/ UR_Delete
    \/ \E answered \in BOOLEAN : UR_Add(answered)
    \/ UR_Commit
    \/ UR_Fail

-----------------------------------------------------------------------------
(* classifier.py: classify_news *)

\* The articles of a run, as scrape_all_sources hands them over.
ArticleOf(i) == [url |-> i, title |-> i, summary |-> "text"]

ArticleLists == {[i \in 1..n |-> ArticleOf(i)] : n \in 0..MaxArticles}

ClassifyInit ==
    /\ cn_pc = "idle"
    /\ cn_input = <<>>
    /\ cn_i = 1
    /\ cn_responses = <<>>
    /\ classified_articles = <<>>
    /\ cn_result = "none"

\* classify_news(articles): an empty list returns an empty DataFrame at once.
CN_Enter(articles) ==
    /\ cn_pc = "idle"
    /\ ur_pc = "idle"
    /\ cn_input' = articles
    /\ cn_i' = 1
    /\ cn_responses' = <<>>
    /\ classified_articles' = <<>>
    /\ IF articles = <<>>
       THEN cn_pc' = "idle" /\ cn_result' = "empty"
       ELSE cn_pc' = "loop" /\ cn_result' = "running"

\* A call of classify_news from outside update_news.
CN_Call(articles) ==
    /\ un_pc = "idle"
    /\ rec_next_id <= MaxRecId
    /\ CN_Enter(articles)
    /\ UNCHANGED <<rec_vars, classify_frame>>

\* One pass of the loop: classify_article(article), append.
CN_ClassifyOne(response) ==
    /\ cn_pc = "loop"
    /\ cn_i <= Len(cn_input)
    /\ cn_responses' = Append(cn_responses, response)
    /\ LET r == classify_article(cn_input[cn_i], response)
       IN  IF r.raised
           THEN /\ cn_pc' = "raised"
                /\ cn_result' = "raised"
                /\ UNCHANGED <<classified_articles, cn_i>>
           ELSE /\ classified_articles' = Append(classified_articles, r.article)
                /\ cn_i' = cn_i + 1
                /\ UNCHANGED <<cn_pc, cn_result>>
    /\ UNCHANGED <<cn_input, rec_vars, classify_frame>>

\* df = pd.DataFrame(classified_articles); update_recommendations(df)
CN_UpdateRecs ==
    /\ cn_pc = "loop"
    /\ cn_i > Len(cn_input)
    /\ UR_Enter(classified_articles)
    /\ cn_pc' = "recs"
    /\ UNCHANGED <<cn_input, cn_i, cn_responses, classified_articles, cn_result>>
    /\ UNCHANGED classify_frame

\* update_recommendations has returned: return df.
CN_Return ==
    /\ cn_pc = "recs"
    /\ ur_pc = "idle"
    /\ cn_pc' = "idle"
    /\ cn_result' = "returned"
    /\ UNCHANGED <<cn_input, cn_i, cn_responses, classified_articles>>
    /\ UNCHANGED <<rec_vars, classify_frame>>

ClassifyNext ==
    \/ \E articles \in ArticleLists : CN_Call(articles)
    \/ \E response \in Responses : CN_ClassifyOne(response)
    \/ CN_UpdateRecs
    \/ UR_Delete
    \/ \E answered \in BOOLEAN : UR_Add(answered)
    \/ UR_Commit
    \/ UR_Fail
    \/ CN_Return

-----------------------------------------------------------------------------
(* utils.py: get_trending_threats, applied to the batches of TrendBatches *)

TrendValues == {"Phishing", "Ransomware", "DDoS", "Other", None}

TrendBatches == UNION {[1..n -> [threat_type : TrendValues]] : n \in 0..MaxTrendBatch}

TrendIdle ==
    /\ tr_pc = "input"
    /\ tr_df = <<>>
    /\ tr_trending = <<>>
    /\ tr_top = <<>>

TrendInit ==
    /\ tr_pc = "input"
    /\ tr_df \in TrendBatches
    /\ tr_trending = <<>>
    /\ tr_top = <<>>

\* get_trending_threats(df), and the top_threats update_recommendations
\* computes for the same df.
Trending ==
    /\ tr_pc = "input"
    /\ tr_trending' = get_trending_threats(tr_df)
    /\ tr_top' = IF tr_df = <<>> THEN <<>> ELSE TopThreats(tr_df)
    /\ tr_pc' = "done"
    /\ UNCHANGED <<tr_df, trend_frame>>

TrendNext == Trending

-----------------------------------------------------------------------------
(* threat_map.py: calculate_threat_severity *)

\* Base severity scores for threat types.
severity_mapping ==
    ("Ransomware" :> 5) @@ ("Zero-day Vulnerability" :> 5) @@ ("Data Breach" :> 4) @@
    ("Supply Chain Attack" :> 4) @@ ("Phishing" :> 3) @@ ("Social Engineering" :> 3) @@
    ("DDoS" :> 2) @@ ("Insider Threat" :> 3) @@ ("APT" :> 5) @@ ("Malware" :> 4) @@
    ("Other" :> 1)

\* Category modifiers.
category_modifiers ==
    ("Critical Infrastructure" :> 1) @@ ("Government" :> 1) @@ ("Healthcare" :> 1) @@
    ("Financial" :> 1)

\* dict.get(key, default)
Lookup(table, key, default) == IF key \in DOMAIN table THEN table[key] ELSE default

\* if category: a None or empty category is falsy.
Truthy(text) == text # None /\ text # ""

Min(a, b) == IF a < b THEN a ELSE b

\* The score without the cap of min(5, ...).
calculate_threat_severity_uncapped(threat_type, category) ==
    Lookup(severity_mapping, threat_type, 1) +
        (IF Truthy(category) THEN Lookup(category_modifiers, category, 0) ELSE 0)

calculate_threat_severity(threat_type, category) ==
    LET base_severity == Lookup(severity_mapping, threat_type, 1)
    IN  IF Truthy(category)
        THEN Min(MaxSeverity, base_severity + Lookup(category_modifiers, category, 0))
        ELSE base_severity

\* The inputs the function is applied to: every threat type of the table, one
\* outside it, and no threat type; every modified category, others, the empty
\* one and none.
SeverityThreats == DOMAIN severity_mapping \cup {"Cryptojacking", None}

SeverityCategories ==
    DOMAIN category_modifiers \cup {"Data Breach", "Uncategorized", "", None}

SeverityIdle ==
    /\ sev_pc = "input"
    /\ sev_threat = None
    /\ sev_category = None
    /\ sev_result = 0

SeverityInit ==
    /\ sev_pc = "input"
    /\ sev_threat \in SeverityThreats
    /\ sev_category \in SeverityCategories
    /\ sev_result = 0

\* severity = calculate_threat_severity(threat_type, category)
Severity ==
    /\ sev_pc = "input"
    /\ sev_result' = calculate_threat_severity(sev_threat, sev_category)
    /\ sev_pc' = "done"
    /\ UNCHANGED <<sev_threat, sev_category, severity_frame>>

SeverityNext == Severity

-----------------------------------------------------------------------------
(* threat_map.py: get_coordinates under @lru_cache(maxsize=128) *)

\* Default coordinates for common regions, in 1/10000 of a degree.
default_coords ==
    ("Kenya" :> <<-12921, 368219>>) @@ ("Global" :> <<0, 0>>) @@
    ("USA" :> <<370902, -957129>>) @@ ("UK" :> <<515074, -1278>>) @@
    ("EU" :> <<508503, 43517>>) @@ ("Africa" :> <<236, 379062>>) @@
    ("Asia" :> <<340479, 1006197>>) @@ ("Europe" :> <<545260, 152551>>) @@
    ("North America" :> <<545260, -1052551>>) @@
    ("South America" :> <<-87832, -554915>>) @@ ("Australia" :> <<-252744, 1337751>>)

\* What geolocator.geocode does for a region: it returns a location, returns
\* None (no match), or raises.
GeocodeOutcomes ==
    {"found", "no_match", "rate_limited", "timed_out", "unavailable", "error"}

\* The location the geocoder finds for a region outside the table.
Location == <<488566, 23522>>

\* The body with a second geocode call after GeocoderRateLimited.
get_coordinates_body_retry(region, outcome) ==
    IF region \in DOMAIN default_coords
    THEN [coords |-> default_coords[region], geocoded |-> 0]
    ELSE [coords |-> IF outcome = "found" THEN Location ELSE default_coords["Global"],
          geocoded |-> IF outcome = "rate_limited" THEN 2 ELSE 1]

\* The body of get_coordinates, run on a miss of the cache: the coordinates
\* it returns and the number of geocode calls it makes.  Every exception is
\* caught and, like no match, falls through to the "Global" coordinates.
get_coordinates_body(region, outcome) ==
    IF region \in DOMAIN default_coords
    THEN [coords |-> default_coords[region], geocoded |-> 0]
    ELSE [coords |-> IF outcome = "found" THEN Location ELSE default_coords["Global"],
          geocoded |-> 1]

\* The cache: entries [region, coords], least recently used first.
CachedAt(cache, region) == {i \in 1..Len(cache) : cache[i].region = region}

\* A hit moves its entry to the most recently used end.
LruTouch(cache, i) ==
    SubSeq(cache, 1, i - 1) \o SubSeq(cache, i + 1, Len(cache)) \o <<cache[i]>>

\* A miss stores its result; a full cache drops its least recently used entry.
LruInsert(cache, entry) ==
    IF Len(cache) >= maxsize THEN Append(Tail(cache), entry)
                             ELSE Append(cache, entry)

\* The regions the callers of the model look up: the probe regions, one of
\* the table and one outside it, and further regions outside the table,
\* each looked up once, in the order of their numbers.
ProbeRegions == {"Kenya", "Nairobi County"}

FillRegion(i) == "Region " \o ToString(i)

NoLookup == [region |-> "", coords |-> <<0, 0>>, geocoded |-> 0, outcome |-> ""]

GeoInit ==
    /\ geo_cache = <<>>
    /\ geo_hist = <<>>
    /\ geo_last = NoLookup
    /\ geo_filled = 0
    /\ geo_phase = "warm-up"

\* get_coordinates(region): the cache answers, or the body runs and its
\* result is stored.
get_coordinates(region, outcome) ==
    LET at == CachedAt(geo_cache, region)
    IN  IF at # {}
        THEN LET i == CHOOSE k \in at : TRUE
             IN  /\ geo_cache' = LruTouch(geo_cache, i)
                 /\ geo_last' = [region |-> region, coords |-> geo_cache[i].coords,
                                 geocoded |-> 0, outcome |-> ""]
                 /\ UNCHANGED geo_hist
        ELSE LET r == get_coordinates_body(region, outcome)
                 used == IF r.geocoded > 0 THEN outcome ELSE ""
             IN  /\ geo_cache' = LruInsert(geo_cache, [region |-> region, coords |-> r.coords])
                 /\ geo_last' = [region |-> region, coords |-> r.coords,
                                 geocoded |-> r.geocoded, outcome |-> used]
                 /\ geo_hist' =
                        IF region \in DOMAIN geo_hist
                        THEN [geo_hist EXCEPT ![region].calls = @ + r.geocoded]
                        ELSE geo_hist @@ (region :> [calls |-> r.geocoded, first |-> r.coords])

\* A caller looks up a probe region, before or after the run of further regions.
LookupProbe(region, outcome) ==
    /\ region \in ProbeRegions
    /\ geo_phase' = IF geo_filled = 0 THEN "warm-up" ELSE "probe"
    /\ get_coordinates(region, outcome)
    /\ UNCHANGED <<geo_filled, geo_frame>>

\* A caller looks up the next further region; the geocoder finds it.
LookupNext ==
    /\ geo_phase # "probe"
    /\ geo_filled < NumFill
    /\ geo_filled' = geo_filled + 1
    /\ geo_phase' = "run"
    /\ get_coordinates(FillRegion(geo_filled + 1), "found")
    /\ UNCHANGED geo_frame

GeoNext ==
    \/ \E region \in ProbeRegions, outcome \in GeocodeOutcomes : LookupProbe(region, outcome)
    \/ LookupNext

-----------------------------------------------------------------------------
(* scraper.py: the selector loop of scrape_source, one selector at a time *)

\* What soup.select finds for one selector in the pages the loop is run on:
\* nothing, one element without a title anchor, one whose anchor has no
\* href, one with a link, or a long list of elements with links.
ElementLists ==
    { <<>>,
      << Element("none", 0) >>,
      << Element("nohref", 0) >>,
      << Element("abs", 9) >>,
      [i \in 1..MaxPageElements |-> Element("rel", i)] }

Pages == [SeqToSet(selectors) -> ElementLists]

SelectorIdle ==
    /\ ss_pc = "idle"
    /\ ss_page = NoElements
    /\ ss_sel = 1
    /\ ss_articles = <<>>
    /\ ss_consulted = <<>>
    /\ ss_processed = 0

\* The response of the first source has been parsed: articles = [].
SelectorInit ==
    /\ ss_pc = "scan"
    /\ ss_page \in Pages
    /\ ss_sel = 1
    /\ ss_articles = <<>>
    /\ ss_consulted = <<>>
    /\ ss_processed = 0

\* One pass of for selector in selectors (lines 84-112).
SelectorPass ==
    /\ ss_pc = "scan"
    /\ ss_sel <= Len(selectors)
    /\ LET els   == ss_page[selectors[ss_sel]]
           taken == Take(els, ElementCap)
           found == IF els # <<>> THEN ExtractElements(1, taken, ss_articles)
                                  ELSE ss_articles
       IN  /\ ss_consulted' = Append(ss_consulted, ss_sel)
           /\ ss_processed' = ss_processed + Len(taken)
           /\ ss_articles' = found
           /\ IF StopScan(els, found) \/ ss_sel = Len(selectors)
              THEN ss_pc' = "done" /\ ss_sel' = ss_sel
              ELSE ss_pc' = "scan" /\ ss_sel' = ss_sel + 1
    /\ UNCHANGED <<ss_page, selector_frame>>

SelectorNext == SelectorPass

-----------------------------------------------------------------------------
(* threat_map.py: create_threat_map *)

\* The rows of the batches the map is drawn from: a region of the table or
\* one outside it, and a threat type and category of each severity from 5
\* down to 1 (category None is a row without a category).  Title, source
\* and url of a row are its position in the batch.
MapRegions == {"Kenya", "Nairobi County"}

MapKinds ==
    { [threat_type |-> "Ransomware", category |-> "Healthcare"],
      [threat_type |-> "Phishing",   category |-> "Financial"],
      [threat_type |-> "Phishing",   category |-> "Privacy"],
      [threat_type |-> "Other",      category |-> None] }

MapRows == [region : MapRegions, kind : MapKinds]

MapBatches == UNION {[1..n -> MapRows] : n \in 0..MaxMapBatch}

\* max(a, b)
Max(a, b) == IF a > b THEN a ELSE b

\* sorted(threats, key=severity) without reverse=True: ascending.
RECURSIVE SortBySeverity_ascending(_)
SortBySeverity_ascending(threats) ==
    IF threats = <<>> THEN <<>>
    ELSE LET i == CHOOSE k \in 1..Len(threats) :
                      /\ \A j \in 1..Len(threats) : threats[j].severity >= threats[k].severity
                      /\ \A j \in 1..(k - 1) : threats[j].severity > threats[k].severity
         IN  <<threats[i]>> \o
             SortBySeverity_ascending(SubSeq(threats, 1, i - 1) \o
                                      SubSeq(threats, i + 1, Len(threats)))

\* sorted(data['threats'], key=lambda x: x['severity'], reverse=True): the
\* sort is stable, and stays so under reverse=True.
RECURSIVE SortBySeverity(_)
SortBySeverity(threats) ==
    IF threats = <<>> THEN <<>>
    ELSE LET i == CHOOSE k \in 1..Len(threats) :
                      /\ \A j \in 1..Len(threats) : threats[j].severity <= threats[k].severity
                      /\ \A j \in 1..(k - 1) : threats[j].severity < threats[k].severity
         IN  <<threats[i]>> \o
             SortBySeverity(SubSeq(threats, 1, i - 1) \o
                            SubSeq(threats, i + 1, Len(threats)))

\* The colour of a marker, lightgray for a severity outside 1..5.
Color(max_severity) ==
    IF max_severity = 2 THEN "blue"
    ELSE IF max_severity = 3 THEN "orange"
    ELSE IF max_severity = 4 THEN "red"
    ELSE IF max_severity = 5 THEN "darkred"
    ELSE "lightgray"

MapIdle ==
    /\ tm_pc = "idle"
    /\ tm_data = <<>>
    /\ tm_i = 1
    /\ region_threats = <<>>
    /\ tm_regions = <<>>
    /\ tm_j = 1
    /\ tm_markers = <<>>

MapInit ==
    /\ tm_pc = "enter"
    /\ tm_data \in MapBatches
    /\ tm_i = 1
    /\ region_threats = <<>>
    /\ tm_regions = <<>>
    /\ tm_j = 1
    /\ tm_markers = <<>>

\* create_threat_map(news_data): an empty batch returns the bare map.
TM_Enter ==
    /\ tm_pc = "enter"
    /\ tm_pc' = IF tm_data = <<>> THEN "done" ELSE "collect"
    /\ UNCHANGED <<tm_data, tm_i, region_threats, tm_regions, tm_j, tm_markers>>
    /\ UNCHANGED <<geo_vars, map_frame>>

\* One pass of the first loop (lines 99-121).
TM_Collect ==
    /\ tm_pc = "collect"
    /\ tm_i <= Len(tm_data)
    /\ LET article  == tm_data[tm_i]
           region   == article.region
           entry    == IF region \in DOMAIN region_threats
                       THEN region_threats[region]
                       ELSE [threats |-> <<>>, max_severity |-> 0, count |-> 0]
           severity == calculate_threat_severity(article.kind.threat_type,
                                                 article.kind.category)
           threat   == [title       |-> tm_i,
                        threat_type |-> article.kind.threat_type,
                        severity    |-> severity,
                        source      |-> tm_i,
                        url         |-> tm_i]
           updated  == [threats      |-> Append(entry.threats, threat),
                        max_severity |-> Max(entry.max_severity, severity),
                        count        |-> entry.count + 1]
       IN  /\ region_threats' =
                  IF region \in DOMAIN region_threats
                  THEN [region_threats EXCEPT ![region] = updated]
                  ELSE region_threats @@ (region :> updated)
           /\ tm_regions' = IF region \in DOMAIN region_threats
                            THEN tm_regions ELSE Append(tm_regions, region)
    /\ tm_i' = tm_i + 1
    /\ tm_pc' = IF tm_i = Len(tm_data) THEN "mark" ELSE "collect"
    /\ UNCHANGED <<tm_data, tm_j, tm_markers>>
    /\ UNCHANGED <<geo_vars, map_frame>>

\* One pass of the second loop (lines 124-185): the coordinates of the
\* region, the colour, the popup with its sorted threat list, the marker.
TM_Marker(outcome) ==
    /\ tm_pc = "mark"
    /\ tm_j <= Len(tm_regions)
    /\ LET region == tm_regions[tm_j]
           data   == region_threats[region]
       IN  /\ get_coordinates(region, outcome)
           /\ tm_markers' = Append(tm_markers,
                  [region       |-> region,
                   location     |-> geo_last'.coords,
                   radius       |-> 10 + data.max_severity * 2,
                   color        |-> Color(data.max_severity),
                   count        |-> data.count,
                   max_severity |-> data.max_severity,
                   threat_list  |-> SortBySeverity(data.threats)])
    /\ tm_j' = tm_j + 1
    /\ tm_pc' = IF tm_j = Len(tm_regions) THEN "done" ELSE "mark"
    /\ UNCHANGED <<tm_data, tm_i, region_threats, tm_regions>>
    /\ UNCHANGED <<geo_filled, geo_phase, map_frame>>

MapNext ==
    \/ TM_Enter
    \/ TM_Collect
    \/ \E outcome \in GeocodeOutcomes : TM_Marker(outcome)

-----------------------------------------------------------------------------
(* main.py: update_news; utils.py: load_news_from_db *)

\* order_by(desc(NewsArticle.created_at)); rows of one created_at come
\* newest id first.
RECURSIVE OrderDesc(_)
OrderDesc(rows) ==
    IF rows = {} THEN <<>>
    ELSE LET r == CHOOSE x \in rows :
                      \A y \in rows : \/ y.created_at < x.created_at
                                       \/ (y.created_at = x.created_at /\ y.id <= x.id)
         IN  <<r>> \o OrderDesc(rows \ {r})

\* load_news_from_db: the articles created in the last 24 hours, or an empty
\* table when the query raises.
load_news_from_db(db_ok) ==
    IF db_ok
    THEN OrderDesc({r \in news_articles : r.created_at >= clock - DayMinutes})
    ELSE <<>>

\* last_update is None, or holds a time: <<>> or <<minutes>>.
Never == <<>>

\* A staleness test that counts the 30th minute as fresh.
Fresh_inclusive(df, updated, now) ==
    df # <<>> /\ updated # Never /\ now - updated[1] <= StaleMinutes

\* Lines 114-115: the stored articles are returned as they are.
Fresh(df, updated, now) ==
    df # <<>> /\ updated # Never /\ now - updated[1] < StaleMinutes

\* What the sources serve during one run: the first two answer or time
\* out, the others cannot be reached.
RunFetch(s) ==
    IF s = 1 THEN { [kind |-> "timeout", body |-> PageBlank],
                    [kind |-> "ok", body |-> PageTwo] }
    ELSE IF s = 2 THEN { [kind |-> "timeout", body |-> PageBlank],
                         [kind |-> "http_error", body |-> PageListing] }
    ELSE { [kind |-> "timeout", body |-> PageBlank] }

\* What the classification call does during one run.
RunResponses ==
    { Raises("network_error"),
      Content("malformed", <<>>),
      Content("array", <<>>),
      Content("object", [category |-> "Malware & Threats", threat_type |-> "Phishing"]) }

\* What the sources serve during a session of several calls: the first
\* answers or times out, the others cannot be reached.
SessionFetch(s) ==
    IF s = 1 THEN { [kind |-> "timeout", body |-> PageBlank],
                    [kind |-> "ok", body |-> PageTwo] }
    ELSE { [kind |-> "timeout", body |-> PageBlank] }

\* What the classification call does during a session of several calls.
SessionResponses ==
    { Raises("network_error"),
      Content("object", [category |-> "Malware & Threats", threat_type |-> "Phishing"]) }

\* The waits between two calls: just under the staleness threshold, the
\* threshold, and just over a day.
Waits == {StaleMinutes - 1, StaleMinutes, DayMinutes + 1}

\* No scrape_all_sources call has been made.
ScrapeIdle ==
    /\ sa_pc = "idle"
    /\ submitted = 0
    /\ work_queue = <<>>
    /\ running = {}
    /\ future = [s \in SOURCES |-> [state |-> "none", result |-> <<>>]]
    /\ fetch = [s \in SOURCES |-> NotFetched]
    /\ fetch_count = [s \in SOURCES |-> 0]
    /\ cursor = 1
    /\ all_articles = <<>>

\* initialize_session_state
PipelineIdle ==
    /\ un_pc = "idle"
    /\ last_update = Never
    /\ un_calls = 0
    /\ un_waits = 0
    /\ news_df = <<>>
    /\ un_checked = [at |-> 0, last_update |-> Never]
    /\ un_result = "none"
    /\ un_returned = <<>>

\* The locals of the calls that have returned are gone.
LocalsDropped ==
    /\ cn_pc' = "idle"
    /\ cn_input' = <<>>
    /\ cn_i' = 1
    /\ cn_responses' = <<>>
    /\ classified_articles' = <<>>
    /\ cn_result' = "none"
    /\ ur_pc' = "idle"
    /\ ur_df' = <<>>
    /\ top_threats' = <<>>
    /\ ur_i' = 1
    /\ tx_deleted' = FALSE
    /\ tx_new' = <<>>
    /\ recs_before' = recs
    /\ ur_result' = "none"
    /\ save_pc' = "idle"
    /\ batch' = <<>>
    /\ save_i' = 1
    /\ session_new' = <<>>
    /\ save_result' = "none"
    /\ store_before' = news_articles

\* update_news, lines 110-119: the load, the staleness test, and either the
\* return of the stored articles or the start of scrape_all_sources.
UN_Call(db_ok) ==
    /\ un_pc = "idle"
    /\ un_calls < MaxCalls
    /\ cn_pc = "idle" /\ ur_pc = "idle" /\ save_pc = "idle"
    /\ un_calls' = un_calls + 1
    /\ news_df' = load_news_from_db(db_ok)
    /\ un_checked' = [at |-> clock, last_update |-> last_update]
    /\ IF Fresh(news_df', last_update, clock)
       THEN /\ un_pc' = "idle"
            /\ un_result' = "cached"
            /\ un_returned' = news_df'
            /\ UNCHANGED scrape_vars
       ELSE /\ un_pc' = "scrape"
            /\ un_result' = "running"
            /\ un_returned' = <<>>
            /\ ScrapeEnter
    /\ LocalsDropped
    /\ UNCHANGED <<last_update, un_waits>>
    /\ UNCHANGED <<news_articles, db_next_id, clock, recs, rec_next_id, pipeline_frame>>

\* Lines 119-122 and 127: scrape_all_sources has returned; an empty list
\* returns an empty table, any other is handed to classify_news.
UN_Scraped ==
    /\ un_pc = "scrape"
    /\ sa_pc = "done"
    /\ IF all_articles = <<>>
       THEN /\ un_pc' = "idle"
            /\ un_result' = "empty"
            /\ un_returned' = <<>>
            /\ UNCHANGED classify_vars
       ELSE /\ un_pc' = "classify"
            /\ CN_Enter(all_articles)
            /\ UNCHANGED <<un_result, un_returned>>
    /\ UNCHANGED <<last_update, un_calls, un_waits, news_df, un_checked>>
    /\ UNCHANGED <<scrape_vars, store_vars, rec_vars, pipeline_frame>>

\* Line 124: classify_news has returned (or raised); its table is handed to
\* save_to_db as records.
UN_Classified ==
    /\ un_pc = "classify"
    /\ cn_pc \in {"idle", "raised"}
    /\ IF cn_pc = "raised"
       THEN /\ un_pc' = "idle"
            /\ un_result' = "raised"
            /\ UNCHANGED store_vars
       ELSE /\ un_pc' = "save"
            /\ SaveEnter(classified_articles)
            /\ UNCHANGED un_result
    /\ UNCHANGED <<last_update, un_calls, un_waits, news_df, un_checked, un_returned>>
    /\ UNCHANGED <<scrape_vars, classify_vars, rec_vars, pipeline_frame>>

\* Lines 125-126: save_to_db has returned (or raised); last_update is set
\* and the classified table returned.
UN_Saved ==
    /\ un_pc = "save"
    /\ save_pc = "idle"
    /\ un_pc' = "idle"
    /\ IF save_result = "raised"
       THEN /\ un_result' = "raised"
            /\ UNCHANGED <<last_update, un_returned>>
       ELSE /\ un_result' = "fresh"
            /\ last_update' = <<clock>>
            /\ un_returned' = classified_articles
    /\ UNCHANGED <<un_calls, un_waits, news_df, un_checked>>
    /\ UNCHANGED <<scrape_vars, store_vars, classify_vars, rec_vars, pipeline_frame>>

\* Time passes between two calls of the session.
Elapse(d) ==
    /\ un_pc = "idle"
    /\ un_waits < MaxWaits
    /\ un_waits' = un_waits + 1
    /\ clock' = clock + d
    /\ UNCHANGED <<news_articles, db_next_id, save_pc, batch, save_i,
                   session_new, save_result, store_before>>
    /\ UNCHANGED <<un_pc, last_update, un_calls, news_df, un_checked, un_result, un_returned>>
    /\ UNCHANGED <<scrape_vars, classify_vars, rec_vars, pipeline_frame>>

\* The first call of a session: main, line 185.
UN_FirstCall(db_ok) ==
    /\ un_calls = 0
    /\ UN_Call(db_ok)

\* One run of update_news.
RunNext ==
    \/ \E db_ok \in BOOLEAN : UN_FirstCall(db_ok)
    \/ Submit
    \/ WorkerStart
    \/ \E s \in SOURCES : \E o \in RunFetch(s) : WorkerFinish(s, o)
    \/ Collect
    \/ Return
    \/ UN_Scraped
    \/ \E response \in RunResponses : CN_ClassifyOne(response)
    \/ CN_UpdateRecs
    \/ UR_Delete
    \/ \E answered \in BOOLEAN : UR_Add(answered)
    \/ UR_Commit
    \/ UR_Fail
    \/ CN_Return
    \/ UN_Classified
    \/ SaveItem
    \/ SaveCommit
    \/ SaveFail
    \/ UN_Saved

\* A session: calls of update_news with waits between them.
PipelineNext ==
    \/ \E db_ok \in BOOLEAN : UN_Call(db_ok)
    \/ Submit
    \/ WorkerStart
    \/ \E s \in SOURCES : \E o \in SessionFetch(s) : WorkerFinish(s, o)
    \/ Collect
    \/ Return
    \/ UN_Scraped
    \/ \E response \in SessionResponses : CN_ClassifyOne(response)
    \/ CN_UpdateRecs
    \/ UR_Delete
    \/ \E answered \in BOOLEAN : UR_Add(answered)
    \/ UR_Commit
    \/ UR_Fail
    \/ CN_Return
    \/ UN_Classified
    \/ SaveItem
    \/ SaveCommit
    \/ SaveFail
    \/ UN_Saved
    \/ \E d \in Waits : Elapse(d)

-----------------------------------------------------------------------------
(* Specifications *)

\* Every subsystem at rest.
Init == /\ ScrapeInit /\ StoreInit /\ ClassifyInit /\ RecInit
        /\ TrendIdle /\ SeverityIdle /\ GeoInit /\ SelectorIdle /\ MapIdle /\ PipelineIdle

SpecScrape == Init /\ [][ScrapeNext]_vars

SpecStore == Init /\ [][StoreNext]_vars

SpecClassify == Init /\ [][ClassifyNext]_vars

SpecRec == Init /\ [][RecNext]_vars

\* get_trending_threats applied to each batch of TrendBatches.
TrendingStart == /\ ScrapeInit /\ StoreInit /\ ClassifyInit /\ RecInit
                 /\ TrendInit /\ SeverityIdle /\ GeoInit /\ SelectorIdle /\ MapIdle /\ PipelineIdle

SpecTrending == TrendingStart /\ [][TrendNext]_vars

\* calculate_threat_severity applied to each pair of inputs.
SeverityStart == /\ ScrapeInit /\ StoreInit /\ ClassifyInit /\ RecInit
                 /\ TrendIdle /\ SeverityInit /\ GeoInit /\ SelectorIdle /\ MapIdle /\ PipelineIdle

SpecSeverity == SeverityStart /\ [][SeverityNext]_vars

\* The selector loop applied to each page of Pages.
SelectorStart == /\ ScrapeInit /\ StoreInit /\ ClassifyInit /\ RecInit
                 /\ TrendIdle /\ SeverityIdle /\ GeoInit /\ SelectorInit /\ MapIdle /\ PipelineIdle

SpecSelector == SelectorStart /\ [][SelectorNext]_vars

\* create_threat_map applied to each batch of MapBatches.
MapStart == /\ ScrapeInit /\ StoreInit /\ ClassifyInit /\ RecInit
            /\ TrendIdle /\ SeverityIdle /\ GeoInit /\ SelectorIdle /\ MapInit /\ PipelineIdle

SpecMap == MapStart /\ [][MapNext]_vars

\* A session: update_news is called, time passes, it is called again.
PipelineStart == /\ ScrapeIdle /\ StoreInit /\ ClassifyInit /\ RecInit
                 /\ TrendIdle /\ SeverityIdle /\ GeoInit /\ SelectorIdle /\ MapIdle
                 /\ PipelineIdle

SpecPipeline == PipelineStart /\ [][PipelineNext]_vars

SpecRun == PipelineStart /\ [][RunNext]_vars

\* A run that has begun keeps running: each worker, each external call and
\* each statement of the calling thread returns or raises.
SpecRunFair == SpecRun /\ WF_vars(RunNext)

SpecGeo == Init /\ [][GeoNext]_vars

-----------------------------------------------------------------------------
(* Properties of scrape_all_sources *)

\* The sources whose fetch failed: a timeout (requests.get raised) or a
\* response with an HTTP error status.
FailedSources == {s \in SOURCES : fetch[s].kind \in {"timeout", "http_error"}}

\* C1 (as claimed): when scrape_all_sources returns, its list holds exactly
\* the articles of the sources whose fetch did not fail, and no article of a
\* source whose fetch timed out or came back with an HTTP error.
C1_FaultIsolation ==
    sa_pc = "done" =>
        /\ SeqToSet(all_articles) =
               UNION {SeqToSet(future[s].result) : s \in SOURCES \ FailedSources}
        /\ \A s \in FailedSources :
               \A i \in 1..Len(all_articles) :
                   all_articles[i].source # Registry[s].name

\* C10: at most max_workers (5) fetch tasks are in flight in every state, no
\* source is fetched more than once, and when scrape_all_sources has returned
\* every source has been fetched exactly once and every task is finished.
C10_BoundedFanOut ==
    /\ Cardinality(running) <= max_workers
    /\ \A s \in SOURCES : fetch_count[s] <= 1
    /\ sa_pc = "done" =>
           \A s \in SOURCES : /\ future[s].state = "finished"
                              /\ fetch_count[s] = 1
                              /\ s \notin running

\* C10 witness: the pool is full while a submitted task still waits.
C10_Witness ==
    /\ Cardinality(running) = max_workers
    /\ work_queue # <<>>

-----------------------------------------------------------------------------
(* Properties of the article store *)

UniqueUrls(rows) == \A r1, r2 \in rows : r1.url = r2.url => r1 = r2

\* C2: no two rows of news_articles share a url, and no step changes, adds
\* to or removes the row of a url that is already stored: a save_to_db call
\* with an item of a stored url leaves that url's row as it was, in every field.
C2_UrlUniqueIdempotent ==
    [][ /\ UniqueUrls(news_articles)
        /\ UniqueUrls(news_articles')
        /\ \A r \in news_articles :
               {x \in news_articles' : x.url = r.url} = {r} ]_vars

\* C2 witness: a save has committed whose batch held an item with a stored
\* url and another title, next to an item that was inserted.
C2_Witness ==
    /\ save_pc = "idle"
    /\ save_result = "committed"
    /\ news_articles # store_before
    /\ \E i \in 1..Len(batch) : \E r \in store_before :
           r.url = batch[i].url /\ r.title # batch[i].title

\* C3 (as claimed): once a save_to_db call that met no database failure of
\* its own has returned, a url that its batch holds twice and that was not
\* stored before the call is the url of exactly one row.
C3_OneRecordPerUrl ==
    (save_pc = "idle" /\ save_result \in {"committed", "integrity_error"}) =>
        \A i, j \in 1..Len(batch) :
            (i < j /\ batch[i].url = batch[j].url
                   /\ ~ \E r \in store_before : r.url = batch[i].url)
            => Cardinality({r \in news_articles : r.url = batch[i].url}) = 1

-----------------------------------------------------------------------------
(* Properties of update_recommendations *)

\* The non-null threat types of a batch, and how often each occurs in it.
TypesOf(df) == {df[i].threat_type : i \in 1..Len(df)} \ {None}
Occurrences(df, t) == Cardinality({i \in 1..Len(df) : df[i].threat_type = t})
FirstIndex(df, t) == CHOOSE i \in 1..Len(df) :
                        /\ df[i].threat_type = t
                        /\ \A j \in 1..(i - 1) : df[j].threat_type # t

FailedResults == {"failed_delete", "failed_insert", "failed_commit"}

\* C4: the committed recommendation set differs from the set stored before
\* the call only after a successful commit, and then it is the complete new
\* set; while a call runs, and after a call that failed at its delete, in its
\* insert loop or at its commit, the committed set is the set stored before.
C4_AllOrNothing ==
    /\ ur_pc # "idle" => recs = recs_before
    /\ ur_result \in FailedResults => recs = recs_before
    /\ recs # recs_before =>
           /\ ur_result = "committed"
           /\ Cardinality(recs) = Len(top_threats)
           /\ {r.threat_type : r \in recs} = SeqToSet(top_threats)

\* C4 witness: a call failed at its commit, after the delete and the inserts
\* of its transaction, and the recommendations stored before are still there.
C4_Witness ==
    /\ ur_result = "failed_commit"
    /\ recs # {}
    /\ recs = recs_before

\* C5: a call whose batch has no non-null threat_type (an empty batch
\* included) returns at once, with no delete, no insert and the stored set
\* as it was, and only such a call does; after a successful call the stored
\* set holds none of the rows stored before and exactly one row for each of
\* the min(3, number of types) most frequent threat types of the batch.
C5_SkipOrReplace ==
    LET types == TypesOf(ur_df)
        kept  == {r.threat_type : r \in recs}
    IN  /\ (ur_result # "none" /\ types = {}) =>
               /\ ur_result = "skipped"
               /\ ur_pc = "idle"
               /\ recs = recs_before
               /\ ~tx_deleted /\ tx_new = <<>>
        /\ ur_result = "skipped" => types = {}
        /\ ur_result = "committed" =>
               /\ recs \cap recs_before = {}
               /\ Cardinality(recs) = Min(TopN, Cardinality(types))
               /\ Cardinality(kept) = Cardinality(recs)
               /\ kept \subseteq types
               /\ \A t \in kept : \A u \in types \ kept :
                      Occurrences(ur_df, u) <= Occurrences(ur_df, t)

\* C5 witness: a non-empty batch of null threat types was skipped while
\* recommendations of an earlier batch are stored.
C5_Witness ==
    /\ ur_result = "skipped"
    /\ ur_df # <<>>
    /\ recs # {}

-----------------------------------------------------------------------------
(* Properties of classify_article and classify_news *)

\* The classification call failed: it raised, or its content is not a JSON object.
CallFailed(response) == response.kind # "content" \/ response.form # "object"

\* C6: no classification failure raises out of classify_article; the article
\* of a failed call is the input article with category "Uncategorized" and
\* threat_type "Other"; classify_news returns one classified article per
\* input article, in the same order.
C6_ClassifierFallback ==
    /\ cn_pc # "raised"
    /\ Len(cn_responses) = Len(classified_articles)
    /\ \A i \in 1..Len(classified_articles) :
           /\ classified_articles[i].url = cn_input[i].url
           /\ CallFailed(cn_responses[i]) =>
                  /\ classified_articles[i].category = "Uncategorized"
                  /\ classified_articles[i].threat_type = "Other"
    /\ cn_result = "returned" => Len(classified_articles) = Len(cn_input)

\* C6 witness: classify_news has returned a batch in which one call raised,
\* and another answered with a JSON object.
C6_Witness ==
    /\ cn_result = "returned"
    /\ \E i \in 1..Len(cn_responses) : cn_responses[i].kind = "network_error"
    /\ \E i \in 1..Len(cn_responses) : ~CallFailed(cn_responses[i])

-----------------------------------------------------------------------------
(* Properties of get_trending_threats *)

\* C8: get_trending_threats returns min(3, number of types) pairs, each a
\* non-null threat type of the batch with its number of articles, ordered by
\* descending count and, among equal counts, by first occurrence in the
\* batch; no type left out ranks before a type returned; top_threats of
\* update_recommendations lists the same types in the same order.
C8_TrendingTop3 ==
    tr_pc = "done" =>
        LET r     == tr_trending
            types == TypesOf(tr_df)
            Before(t, u) ==
                \/ Occurrences(tr_df, t) > Occurrences(tr_df, u)
                \/ /\ Occurrences(tr_df, t) = Occurrences(tr_df, u)
                   /\ FirstIndex(tr_df, t) < FirstIndex(tr_df, u)
        IN  /\ Len(r) = Min(TopN, Cardinality(types))
            /\ \A i \in 1..Len(r) :
                   /\ r[i].threat \in types
                   /\ r[i].count = Occurrences(tr_df, r[i].threat)
            /\ \A i, j \in 1..Len(r) : i < j => Before(r[i].threat, r[j].threat)
            /\ \A i \in 1..Len(r) :
                   \A u \in types \ {r[k].threat : k \in 1..Len(r)} :
                       Before(r[i].threat, u)
            /\ tr_top = [i \in 1..Len(r) |-> r[i].threat]

\* C8 witness: a batch of more than three threat types, two of them tied,
\* was cut to three.
C8_Witness ==
    /\ tr_pc = "done"
    /\ Len(tr_trending) = TopN
    /\ Cardinality(TypesOf(tr_df)) > TopN
    /\ \E i \in 1..Len(tr_df) : tr_df[i].threat_type = None

-----------------------------------------------------------------------------
(* Properties of calculate_threat_severity *)

\* C7: the score is min(5, base + modifier), where base is the table value
\* of the threat type, or 1 for a threat type outside the table, and modifier
\* is 1 for the categories Critical Infrastructure, Government, Healthcare
\* and Financial and 0 for every other, an empty or an absent category; so
\* the score is an integer from 1 to 5.
C7_SeverityScore ==
    sev_pc = "done" =>
        LET base == IF sev_threat \in DOMAIN severity_mapping
                    THEN severity_mapping[sev_threat] ELSE 1
            modifier == IF sev_category \in {"Critical Infrastructure", "Government",
                                             "Healthcare", "Financial"}
                        THEN 1 ELSE 0
        IN  /\ sev_result = Min(5, base + modifier)
            /\ sev_result \in 1..5

\* C7 witness: Ransomware in Healthcare scores 5, not 6.
C7_Witness ==
    /\ sev_pc = "done"
    /\ sev_threat = "Ransomware"
    /\ sev_category = "Healthcare"
    /\ sev_result = 5

-----------------------------------------------------------------------------
(* Properties of get_coordinates *)

InTable(region) == region \in DOMAIN default_coords

\* What holds of every lookup, cached or not: a table region gets its table
\* coordinates and is never geocoded; a lookup makes at most one geocode
\* call; a geocode call that fails or finds nothing gives (0, 0).
LookupRules ==
    /\ \A r \in DOMAIN geo_hist :
           InTable(r) => geo_hist[r].calls = 0 /\ geo_hist[r].first = default_coords[r]
    /\ (geo_last.region # "" /\ InTable(geo_last.region)) =>
           geo_last.coords = default_coords[geo_last.region] /\ geo_last.geocoded = 0
    /\ geo_last.geocoded <= 1
    /\ geo_last.outcome \notin {"", "found"} =>
           geo_last.coords = <<0, 0>> /\ geo_last.geocoded = 1

\* C9 (as claimed): over the whole process a region outside the table is
\* geocoded at most once and every lookup of a region returns the result of
\* its first lookup; with the rules of every lookup.
C9_GeocodedOnce ==
    /\ LookupRules
    /\ \A r \in DOMAIN geo_hist : geo_hist[r].calls <= 1
    /\ geo_last.region # "" => geo_last.coords = geo_hist[geo_last.region].first

\* C9 (amended): the rules of every lookup hold; the cache never holds more
\* than 128 entries; as long as at most 128 distinct regions have been looked
\* up, no region was geocoded twice and every lookup returned its region's
\* first result; a lookup of a cached region makes no geocode call and
\* returns the cached coordinates; a lookup of a region outside the table
\* that is not cached makes exactly one geocode call; and an entry leaves the
\* cache only as its least recently used entry, when the cache is full and
\* another region is stored.
C9_MemoizedWhileCached ==
    /\ [](/\ LookupRules
          /\ Len(geo_cache) <= maxsize
          /\ Cardinality(DOMAIN geo_hist) <= maxsize =>
                 /\ \A r \in DOMAIN geo_hist : geo_hist[r].calls <= 1
                 /\ geo_last.region # "" =>
                        geo_last.coords = geo_hist[geo_last.region].first)
    /\ [][LET r  == geo_last'.region
              at == CachedAt(geo_cache, r)
          IN  /\ at # {} =>
                     /\ geo_last'.geocoded = 0
                     /\ \A i \in at : geo_last'.coords = geo_cache[i].coords
                     /\ geo_hist' = geo_hist
              /\ (at = {} /\ ~InTable(r)) =>
                     /\ geo_last'.geocoded = 1
                     /\ geo_hist'[r].calls =
                            (IF r \in DOMAIN geo_hist THEN geo_hist[r].calls ELSE 0) + 1
              /\ \A i \in 1..Len(geo_cache) :
                     CachedAt(geo_cache', geo_cache[i].region) = {} =>
                         i = 1 /\ Len(geo_cache) = maxsize /\ at = {}
        ]_vars

\* C9 witness: a geocoding failure was cached as (0, 0), and a later lookup
\* of the same region, after a table region was looked up, returned it from
\* the cache without a geocode call.
C9_Witness ==
    /\ "Nairobi County" \in DOMAIN geo_hist
    /\ "Kenya" \in DOMAIN geo_hist
    /\ geo_hist["Nairobi County"].calls = 1
    /\ geo_hist["Nairobi County"].first = <<0, 0>>
    /\ geo_last = [region |-> "Nairobi County", coords |-> <<0, 0>>,
                   geocoded |-> 0, outcome |-> ""]
    /\ geo_filled > 0

-----------------------------------------------------------------------------
(* Properties of save_to_db under failure *)

\* C12: a call of save_to_db in which a step fails (a query or insert of the
\* loop, or the commit) ends at that step, is not retried, returns to its
\* caller, and leaves the committed rows of news_articles as they were when
\* the call began: no part of the batch is stored.
C12_FailedSavePreservesStore ==
    /\ [](save_result \in {"db_error", "integrity_error"} =>
              /\ save_pc = "idle"
              /\ session_new = <<>>
              /\ news_articles = store_before)
    /\ [][save_result' \in {"db_error", "integrity_error"} /\ save_result = "running" =>
              /\ news_articles' = news_articles
              /\ save_pc' = "idle"
              /\ batch' = batch /\ save_i' = save_i]_vars

\* C12 witness: the commit of a batch failed after an insert was pending,
\* with rows stored by an earlier call.
C12_Witness ==
    /\ save_result \in {"db_error", "integrity_error"}
    /\ save_i > 1
    /\ news_articles # {}
    /\ \E i \in 1..Len(batch) : \A r \in news_articles : r.url # batch[i].url

-----------------------------------------------------------------------------
(* Properties of the selector loop of scrape_source *)

\* The selectors whose first five elements hold a title anchor with a link.
Yields(page, i) ==
    \E k \in 1..Len(page[selectors[i]]) :
        k <= 5 /\ page[selectors[i]][k].link \in {"rel", "abs"}

\* The selector the loop ends at when it stops at the first selector with P.
FirstWith(P(_)) ==
    IF \E i \in 1..Len(selectors) : P(i)
    THEN CHOOSE i \in 1..Len(selectors) : P(i) /\ \A j \in 1..(i - 1) : ~P(j)
    ELSE Len(selectors)

\* C13 (as claimed): the selectors are consulted in their fixed order up to
\* the first one that matched any element and none after it, whether or not
\* its elements gave a title link; at most 5 elements are processed and at
\* most 5 articles returned.
C13_FirstMatchStops ==
    ss_pc = "done" =>
        LET Matched(i) == ss_page[selectors[i]] # <<>>
        IN  /\ ss_consulted = [i \in 1..FirstWith(Matched) |-> i]
            /\ ss_processed <= 5
            /\ Len(ss_articles) <= 5

\* C13 (amended): the selectors are consulted in their fixed order up to the
\* first one whose first five elements gave at least one article and none
\* after it; a selector whose elements gave no article is passed over; at
\* most 5 elements are processed for each selector consulted; the articles
\* returned are those of the last selector consulted, at most 5, and they
\* are what scrape_source returns for the page.
C13_FirstYieldStops ==
    ss_pc = "done" =>
        LET Yielding(i) == Yields(ss_page, i)
            last        == FirstWith(Yielding)
            els         == ss_page[selectors[last]]
            linked      == {k \in 1..Len(els) : k <= 5 /\ els[k].link \in {"rel", "abs"}}
        IN  /\ ss_consulted = [i \in 1..last |-> i]
            /\ ss_processed <= 5 * Len(ss_consulted)
            /\ Len(ss_articles) = Cardinality(linked)
            /\ Len(ss_articles) <= 5
            /\ \A a \in 1..Len(ss_articles) :
                   \E k \in linked : ss_articles[a].title = els[k].id
            /\ ss_articles = scrape_source(1, [kind |-> "ok", body |-> ss_page])

\* C13 witness: the first selector matched an element without a title link,
\* the second a list of more than five elements with links.
C13_Witness ==
    /\ ss_pc = "done"
    /\ ss_page["article"] = << Element("none", 0) >>
    /\ Len(ss_page[".post"]) > 5
    /\ ss_consulted = <<1, 2>>
    /\ Len(ss_articles) = 5

-----------------------------------------------------------------------------
(* Properties of create_threat_map *)

RECURSIVE SumCounts(_)
SumCounts(markers) ==
    IF markers = <<>> THEN 0 ELSE Head(markers).count + SumCounts(Tail(markers))

\* C15: for a non-empty batch, every article is in the threat list of
\* exactly one region, the region of the article; the count of a region is
\* the length of its threat list and the counts add up to the number of
\* articles; max_severity of a region is the highest severity of its
\* threats and lies in 1..5; the threat list is in descending order of
\* severity with entries of equal severity in batch order.
C15_RegionAggregation ==
    (tm_pc = "done" /\ tm_data # <<>>) =>
        /\ \A i \in 1..Len(tm_data) :
               LET holders == {m \in 1..Len(tm_markers) :
                                  \E k \in 1..Len(tm_markers[m].threat_list) :
                                      tm_markers[m].threat_list[k].title = i}
               IN  /\ Cardinality(holders) = 1
                   /\ \A m \in holders :
                          /\ tm_markers[m].region = tm_data[i].region
                          /\ Cardinality({k \in 1..Len(tm_markers[m].threat_list) :
                                  tm_markers[m].threat_list[k].title = i}) = 1
        /\ \A m, n \in 1..Len(tm_markers) :
               tm_markers[m].region = tm_markers[n].region => m = n
        /\ SumCounts(tm_markers) = Len(tm_data)
        /\ \A m \in 1..Len(tm_markers) :
               LET list == tm_markers[m].threat_list
               IN  /\ tm_markers[m].count = Len(list)
                   /\ tm_markers[m].max_severity \in 1..5
                   /\ \E k \in 1..Len(list) : list[k].severity = tm_markers[m].max_severity
                   /\ \A k \in 1..Len(list) : list[k].severity <= tm_markers[m].max_severity
                   /\ \A k, l \in 1..Len(list) :
                          k < l => \/ list[k].severity > list[l].severity
                                   \/ /\ list[k].severity = list[l].severity
                                      /\ list[k].title < list[l].title

\* C15 witness: two regions, one with two threats of equal severity that
\* came after a threat of lower severity.
C15_Witness ==
    /\ tm_pc = "done"
    /\ Len(tm_markers) = 2
    /\ \E m \in 1..Len(tm_markers) :
           LET list == tm_markers[m].threat_list
           IN  /\ Len(list) = 3
               /\ list[1].severity = list[2].severity
               /\ list[2].severity > list[3].severity
               /\ list[3].title < list[1].title
               /\ list[1].title < list[2].title

-----------------------------------------------------------------------------
(* Properties of update_news *)

\* C11: whatever fails in a run of update_news (fetches, full-text
\* extraction, classification calls, recommendation generation, the
\* database), no exception leaves the run, and a run that has begun
\* eventually returns a table, possibly empty.
C11_RunCompletes ==
    /\ [](un_result # "raised" /\ cn_pc # "raised" /\ save_result # "raised")
    /\ (un_calls = 1) ~> (un_pc = "idle" /\ un_result \in {"cached", "fresh", "empty"})

\* C11 witness: a run returned its table although a source timed out, a
\* full text could not be extracted, a classification call raised, the
\* recommendation update failed and the save failed.
C11_Witness ==
    /\ un_pc = "idle"
    /\ un_result = "fresh"
    /\ fetch[1].kind = "timeout"
    /\ \E i \in 1..Len(un_returned) : un_returned[i].summary = ""
    /\ \E i \in 1..Len(cn_responses) : cn_responses[i].kind = "network_error"
    /\ ur_result \in {"failed_delete", "failed_insert", "failed_commit"}
    /\ save_result = "db_error"

\* C14: a call of update_news returns the stored articles of the last 24
\* hours, without scraping, classifying or writing, exactly when the load
\* returned at least one article, last_update is set and less than 30
\* minutes have passed since; every other call starts the scrape.
\* last_update changes only at the end of a call whose scrape returned at
\* least one article, and a call whose scrape returned none returns an
\* empty table.
C14_StalenessWindow ==
    [][/\ un_calls' = un_calls + 1 =>
             LET served == news_df' # <<>>
                           /\ last_update # Never
                           /\ clock - last_update[1] < 30
             IN  /\ \A i \in 1..Len(news_df') :
                        /\ news_df'[i] \in news_articles
                        /\ clock - news_df'[i].created_at <= 24 * 60
                 /\ served =>
                        /\ {news_df'[i] : i \in 1..Len(news_df')} =
                               {r \in news_articles : clock - r.created_at <= 24 * 60}
                        /\ un_pc' = "idle"
                        /\ un_result' = "cached"
                        /\ un_returned' = news_df'
                        /\ fetch_count' = fetch_count /\ sa_pc' = sa_pc
                        /\ cn_pc' = "idle" /\ ur_pc' = "idle" /\ save_pc' = "idle"
                        /\ news_articles' = news_articles /\ recs' = recs
                 /\ ~served =>
                        /\ un_pc' = "scrape"
                        /\ un_result' = "running"
                        /\ sa_pc' = "submit"
       /\ (un_calls' = un_calls /\ un_result' = "cached") => un_result = "cached"
       /\ last_update' # last_update =>
             /\ un_pc = "save" /\ un_pc' = "idle"
             /\ all_articles # <<>>
             /\ last_update' = <<clock>>
       /\ (un_pc = "scrape" /\ un_pc' # "scrape") =>
             /\ \A s \in SOURCES : fetch_count[s] = 1
             /\ IF all_articles = <<>>
                THEN un_pc' = "idle" /\ un_result' = "empty" /\ un_returned' = <<>>
                ELSE un_pc' = "classify" /\ cn_input' = all_articles
       /\ (un_pc = "classify" /\ un_pc' # "classify") => un_pc' = "save"
       /\ (un_pc = "save" /\ un_pc' # "save") =>
             /\ un_pc' = "idle"
             /\ un_result' = "fresh"
             /\ un_returned' = classified_articles
             /\ un_returned' # <<>>
      ]_vars

\* C14 witness: the second call of a session, 29 minutes after the first,
\* returned the stored articles.
C14_Witness ==
    /\ un_calls = 2
    /\ un_result = "cached"
    /\ un_checked.last_update # Never
    /\ un_checked.at - un_checked.last_update[1] = 29
    /\ un_returned # <<>>

\* The position of a source in the registry.
SourceIndex(name) == CHOOSE s \in 1..Len(Registry) : Registry[s].name = name

RECURSIVE MergedResults(_)
MergedResults(k) ==
    IF k = 0 THEN <<>> ELSE MergedResults(k - 1) \o future[k].result

\* C16: whatever the order in which the fetch workers finish, the merged
\* list holds the results of the sources in registry order and the articles
\* of a source in the order of their elements in the page; classify_news
\* makes one classification call per article, in input order, and returns
\* as many articles in the same order; save_to_db goes through them in that
\* order.
C16_OrderPreserved ==
    [][/\ sa_pc' = "done" =>
             /\ all_articles' = MergedResults(Cardinality(SOURCES))'
             /\ \A s \in SOURCES : future'[s].result = scrape_source(s, fetch'[s])
             /\ \A i, j \in 1..Len(all_articles') :
                    i < j =>
                        LET a == all_articles'[i]
                            b == all_articles'[j]
                        IN  \/ SourceIndex(a.source) < SourceIndex(b.source)
                            \/ /\ a.source = b.source
                               /\ a.title < b.title
       /\ Len(cn_responses') = Len(cn_responses) + 1 =>
             /\ cn_i = Len(cn_responses) + 1
             /\ Len(classified_articles') = Len(classified_articles) + 1
             /\ SubSeq(classified_articles', 1, Len(classified_articles)) = classified_articles
             /\ classified_articles'[cn_i].url = cn_input[cn_i].url
       /\ cn_result' = "returned" =>
             /\ cn_input' = all_articles'
             /\ Len(cn_responses') = Len(cn_input')
             /\ Len(classified_articles') = Len(cn_input')
             /\ \A i \in 1..Len(cn_input') :
                    classified_articles'[i].url = cn_input'[i].url
       /\ save_pc' = "loop" =>
             /\ batch' = classified_articles'
             /\ \A i \in 1..Len(batch') : batch'[i].url = all_articles'[i].url
       /\ (save_pc = "loop" /\ save_i' # save_i) =>
             /\ save_i' = save_i + 1
             /\ \/ session_new' = session_new
                \/ /\ Len(session_new') = Len(session_new) + 1
                   /\ SubSeq(session_new', 1, Len(session_new)) = session_new
                   /\ session_new'[Len(session_new')].url = batch[save_i].url
      ]_vars

\* C16 witness: a run merged the articles of two sources, classified and
\* stored them.
C16_Witness ==
    /\ un_result = "fresh"
    /\ Len(all_articles) = 3
    /\ all_articles[1].source # all_articles[3].source
    /\ Len(un_returned) = 3
    /\ save_result = "committed"
    /\ Cardinality(news_articles) = 3

====
